---- MODULE Spec2Model ----
(***************************************************************************)
(* Agentverse dashboard: the chat composer, the request builder, the       *)
(* streaming controller and the credential store of the Dashboard          *)
(* component, as a state machine with one action per handler or            *)
(* asynchronous continuation.                                              *)
(*                                                                         *)
(* Text is a sequence of tokens (each token a non-empty piece of a string) *)
(* so that '' is << >>, + is \o, and trim / includes / split / join are    *)
(* computed on the tokens.  A nullable value is a sequence of at most one  *)
(* element: << >> is null, << v >> is v.                                   *)
(***************************************************************************)
EXTENDS Naturals, Sequences, FiniteSets, Bags, TLC

(* ------------------------------ bounds --------------------------------- *)

\* calls of handleSendMessage that can be past their guards at once
MaxGens == 2

\* Spec: the longest conversation a send may produce, and the files held at
\* once (being read, pending on the composer, in the conversation)
MaxMessages == 3

MaxInPlay == 1

\* SpecComposer: the same two bounds, with room for the attachments
ComposerMessages == 1

ComposerInPlay == 4

\* SpecBuilder: the longest conversation a send starts from
BuilderMessages == 2

(* -------------------------- program constants -------------------------- *)

\* handleFileUpload: uploadedFiles.length + files.length > 3
MaxFiles == 3

(* ------------------------------- text ---------------------------------- *)

Null == << >>

Last(s) == s[Len(s)]

Front(s) == SubSeq(s, 1, Len(s) - 1)

\* the characters /\s/ and String.prototype.trim treat as white space
WhiteSpace == {" ", "\n", "\t"}

RECURSIVE TrimStart(_)
TrimStart(s) ==
    IF s # << >> /\ Head(s) \in WhiteSpace THEN TrimStart(Tail(s)) ELSE s

RECURSIVE TrimEnd(_)
TrimEnd(s) ==
    IF s # << >> /\ Last(s) \in WhiteSpace THEN TrimEnd(Front(s)) ELSE s

\* String.prototype.trim
Trim(s) == TrimEnd(TrimStart(s))

\* String.prototype.startsWith
StartsWith(s, prefix) ==
    /\ Len(prefix) <= Len(s)
    /\ SubSeq(s, 1, Len(prefix)) = prefix

\* String.prototype.includes
Includes(s, needle) ==
    \E i \in 0..Len(s) :
        /\ i + Len(needle) <= Len(s)
        /\ SubSeq(s, i + 1, i + Len(needle)) = needle

\* Array.prototype.join: the texts of a sequence with sep between them
RECURSIVE Join(_, _)
Join(texts, sep) ==
    IF texts = << >> THEN << >>
    ELSE IF Len(texts) = 1 THEN Head(texts)
    ELSE Head(texts) \o sep \o Join(Tail(texts), sep)

\* String.prototype.split(sep) for a one-token separator: the pieces between
\* the occurrences of sep
RECURSIVE Split(_, _)
Split(s, sep) ==
    IF \A i \in 1..Len(s) : s[i] # sep THEN << s >>
    ELSE LET i == CHOOSE k \in 1..Len(s) :
                      s[k] = sep /\ \A j \in 1..(k - 1) : s[j] # sep
         IN  << SubSeq(s, 1, i - 1) >> \o Split(SubSeq(s, i + 1, Len(s)), sep)

\* Array.prototype.filter((_, index) => index !== indexToRemove)
RemoveAt(s, indexToRemove) ==
    SubSeq(s, 1, indexToRemove - 1) \o SubSeq(s, indexToRemove + 1, Len(s))

(* ------------------------------ files ---------------------------------- *)

\* the File objects the picker offers: name, MIME type, content
ImageFile == [name |-> << "cat.png" >>, type |-> << "image/", "png" >>, bytes |-> "CAT"]

TextFile == [name |-> << "notes.txt" >>, type |-> << "text/", "plain" >>, bytes |-> "NOTES"]

PickableFiles == {ImageFile, TextFile}

\* two more files, for the conversations the request builder is given
PhotoFile == [name |-> << "dog.jpg" >>, type |-> << "image/", "jpeg" >>, bytes |-> "DOG"]

PdfFile == [name |-> << "paper.pdf" >>, type |-> << "application/", "pdf" >>, bytes |-> "PDF"]

\* the FileLists one change event of the file input can carry
FileLists ==
    {<< f >> : f \in PickableFiles} \cup
    {<< f, g >> : f \in PickableFiles, g \in PickableFiles}

\* base64 of a file's content
Base64(bytes) ==
    CASE bytes = "CAT" -> "Q0FU"
      [] bytes = "NOTES" -> "Tk9URVM="
      [] bytes = "DOG" -> "RE9H"
      [] bytes = "PDF" -> "UERG"

\* FileReader.readAsDataURL: data:<type>;base64,<data>
ReadAsDataURL(file) ==
    << "data:" >> \o file.type \o << ";base64", ",", Base64(file.bytes) >>

\* reader.onload: the UploadedFile built from the read result
NewFile(file) ==
    [name       |-> file.name,
     type       |-> file.type,
     base64Data |-> Split(ReadAsDataURL(file), ",")[2],
     isImage    |-> StartsWith(file.type, << "image/" >>)]

(* -------------------------- request builder ---------------------------- *)

IsImage(f) == f.isImage

NotImage(f) == ~f.isImage

\* the inline-binary part of one image attachment
InlinePart(file) == [inlineData |-> [mimeType |-> file.type, data |-> file.base64Data]]

TextPart(text) == [text |-> text]

NotePrefix == << "\n\n(For context, the following files were also attached: " >>

NoteSuffix == << ". You cannot read their contents.)" >>

DefaultInstruction == << "Describe the attached image(s)." >>

\* nonImageFiles.map(f => f.name).join(', ')
FileNames(files) == Join([i \in 1..Len(files) |-> files[i].name], << ", " >>)

\* TextContent without the default instruction
TextContentNoDefault(msg) ==
    LET nonImageFiles == SelectSeq(msg.files, NotImage)
    IN  IF Len(msg.files) > 0 /\ Len(nonImageFiles) > 0
        THEN msg.content \o NotePrefix \o FileNames(nonImageFiles) \o NoteSuffix
        ELSE msg.content

\* TextContent without the note on the non-image attachments
TextContentWithoutNote(msg) ==
    IF /\ Len(msg.files) > 0
       /\ \E i \in 1..Len(msg.files) : msg.files[i].isImage
       /\ msg.content = << >>
    THEN DefaultInstruction
    ELSE msg.content

\* the text part's content for one message: its text, the note on the
\* non-image attachments, the default instruction for images without text
TextContent(msg) ==
    LET nonImageFiles == SelectSeq(msg.files, NotImage)
        withNote ==
            IF Len(msg.files) > 0 /\ Len(nonImageFiles) > 0
            THEN msg.content \o NotePrefix \o FileNames(nonImageFiles) \o NoteSuffix
            ELSE msg.content
    IN  IF /\ Len(msg.files) > 0
           /\ \E i \in 1..Len(msg.files) : msg.files[i].isImage
           /\ withNote = << >>
        THEN DefaultInstruction
        ELSE withNote

\* PartsOf inlining every attachment, image or not
PartsOfInliningAll(msg) ==
    LET imageParts == [i \in 1..Len(msg.files) |-> InlinePart(msg.files[i])]
        textContent == TextContent(msg)
    IN  imageParts \o (IF textContent # << >> THEN << TextPart(textContent) >> ELSE << >>)

\* the body of the map callback: the parts of one message
PartsOf(msg) ==
    LET images == SelectSeq(msg.files, IsImage)
        imageParts ==
            IF Len(msg.files) > 0
            THEN [i \in 1..Len(images) |-> InlinePart(images[i])]
            ELSE << >>
        textContent == TextContent(msg)
    IN  imageParts \o (IF textContent # << >> THEN << TextPart(textContent) >> ELSE << >>)

ToContent(msg) == [role |-> msg.role, parts |-> PartsOf(msg)]

HasParts(c) == Len(c.parts) > 0

\* BuildContents without the filter
BuildContentsUnfiltered(msgs) == [i \in 1..Len(msgs) |-> ToContent(msgs[i])]

\* updatedMessages.map(...).filter(c => c.parts.length > 0)
BuildContents(msgs) ==
    SelectSeq([i \in 1..Len(msgs) |-> ToContent(msgs[i])], HasParts)

(* -------------------------------- state -------------------------------- *)

VARIABLES
    messages,                \* useState<Message[]>: the conversation
    inputValue,              \* useState: the composer text
    isLoading,               \* useState: the busy flag
    uploadedFiles,           \* useState<UploadedFile[]>: the pending attachments
    generationControllerRef, \* useRef: << g >> when it holds generation g's stop closure
    gens,                    \* the calls of handleSendMessage past their guards
    readers,                 \* the FileReaders whose onload has not run: a bag of Files
    storedKey,               \* localStorage item 'gemini-api-key'
    envApiKey,               \* process.env.API_KEY
    isSettingsOpen,          \* useState: the settings modal is shown
    activeTab,               \* useState<SettingsTab>: the tab the modal shows
    apiKeyInput,             \* useState: the text of the key field
    savedApiKey,             \* useState<string | null>: the modal's copy of the stored key
    apiKeyError,             \* useState<string | null>: the field-level error
    heap,                    \* the message objects an updater is working on, by reference
    prevRefs,                \* the array React hands that updater as prev: references into heap
    update,                  \* the queued setMessages updater, or Null
    returned,                \* the arrays its invocations have returned, in order
    lastOp,                  \* the handler or continuation that ran last
    alertMsg,                \* the text that step passed to alert(), or Null
    logged                   \* the error that step passed to console.error, or Null

\* the state of the settings modal
settings == << isSettingsOpen, activeTab, apiKeyInput, savedApiKey, apiKeyError >>

\* a setMessages updater being invoked on the objects of the conversation
render == << heap, prevRefs, update, returned >>

vars ==
    << messages, inputValue, isLoading, uploadedFiles, generationControllerRef,
       gens, readers, storedKey, envApiKey, settings, render, lastOp, alertMsg, logged >>

\* what the user types into the composer
InputTexts == {<< " " >>, << " ", "hi", " " >>}

\* the texts of the chunks a loop processes, in order; any chunk may instead
\* carry no text (chunk.text is << >>), and the stream may end or fail early
StreamTexts == << << "Hel" >>, << "lo" >> >>

\* chunk.text of the k-th chunk of a stream; the chunks after the last of
\* StreamTexts are only met by a loop that breaks on them
Fragments(k) == IF k <= Len(StreamTexts) THEN {<< >>, StreamTexts[k]} ELSE {<< "." >>}

\* the errors the API call or the stream is rejected with
ApiErrors ==
    {[message |-> << "[400] ", "API key not valid", ". Please pass a valid API key." >>],
     [message |-> << "fetch failed" >>]}

NoKeyAlert ==
    << "No API Key configured. Please add your Gemini API Key in the Settings menu (bottom left) to continue." >>

MaxFilesAlert == << "You can upload a maximum of 3 files." >>

GenericErrorText == << "Sorry, I encountered an error. Please try again." >>

InvalidKeyText == << "Your API key is invalid. Please check it in the Settings menu." >>

\* a key an earlier session saved
UserKey == << "user-provided-key" >>

\* a JavaScript truthy test of a nullable string
Truthy(opt) == opt # Null /\ opt[1] # << >>

\* getApiKey falling back to a placeholder key instead of null
getApiKeyOrPlaceholder ==
    IF Truthy(storedKey) THEN storedKey
    ELSE IF Truthy(envApiKey) THEN envApiKey
    ELSE << << "PLACEHOLDER_API_KEY" >> >>

\* getApiKey reading the build-time default before the stored key
getApiKeyDefaultFirst ==
    IF Truthy(envApiKey) THEN envApiKey
    ELSE IF Truthy(storedKey) THEN storedKey
    ELSE Null

\* getApiKey(): the stored key, else the build-time default, else null
getApiKey ==
    IF Truthy(storedKey) THEN storedKey
    ELSE IF Truthy(envApiKey) THEN envApiKey
    ELSE Null

\* a generation whose finally block has run
Done == [pc |-> "done", shouldStop |-> FALSE, chunks |-> << >>, contents |-> << >>]

InFlight == {g \in DOMAIN gens : gens[g].pc # "done"}

\* the closure a new call of handleSendMessage gets
FreeGen == CHOOSE g \in DOMAIN gens \ InFlight : \A h \in DOMAIN gens \ InFlight : g <= h

RECURSIVE FilesIn(_)
FilesIn(msgs) ==
    IF msgs = << >> THEN 0 ELSE Len(Head(msgs).files) + FilesIn(Tail(msgs))

\* the files held anywhere: being read, pending on the composer, in the conversation
FilesInPlay == BagCardinality(readers) + Len(uploadedFiles) + FilesIn(messages)

Init ==
    /\ messages = << >>
    /\ inputValue = << >>
    /\ isLoading = FALSE
    /\ uploadedFiles = << >>
    /\ generationControllerRef = Null
    /\ gens = [g \in 1..MaxGens |-> Done]
    /\ readers = EmptyBag
    /\ storedKey \in {Null, << UserKey >>}
    /\ envApiKey = Null
    /\ isSettingsOpen = FALSE
    /\ activeTab = "Account"
    /\ apiKeyInput = << >>
    /\ savedApiKey = Null
    /\ apiKeyError = Null
    /\ heap = << >>
    /\ prevRefs = << >>
    /\ update = Null
    /\ returned = << >>
    /\ lastOp = "init"
    /\ alertMsg = Null
    /\ logged = Null

(* --------------------------- state updaters ---------------------------- *)

Placeholder == [role |-> "model", content |-> << >>, files |-> << >>]

\* AppendPlaceholder appending nothing
AppendNoPlaceholder(prev) == prev

\* setMessages(prev => [...prev, { role: 'model', content: '' }])
AppendPlaceholder(prev) == Append(prev, Placeholder)

\* AppendFragment putting the text in front of the content
AppendFragmentInFront(prev, text) ==
    IF prev # << >> /\ Last(prev).role = "model"
    THEN [prev EXCEPT ![Len(prev)].content = text \o @]
    ELSE prev

\* AppendFragment writing to the first model message of the conversation
AppendFragmentToFirstModel(prev, text) ==
    LET models == {i \in DOMAIN prev : prev[i].role = "model"}
    IN  IF models # {}
        THEN [prev EXCEPT ![CHOOSE i \in models : \A j \in models : i <= j].content = @ \o text]
        ELSE prev

\* the updater of the stream loop: lastMsg.content += text when the last
\* message is a model message
AppendFragment(prev, text) ==
    IF prev # << >> /\ Last(prev).role = "model"
    THEN [prev EXCEPT ![Len(prev)].content = @ \o text]
    ELSE prev

\* the catch block's choice of text
ErrorMessageFor(error) ==
    IF Includes(error.message, << "API key not valid" >>)
    THEN InvalidKeyText
    ELSE GenericErrorText

\* ShowError without the test that the last message is still empty
ShowErrorOverwriting(prev, errorMessage) ==
    IF prev # << >> /\ Last(prev).role = "model"
    THEN [prev EXCEPT ![Len(prev)].content = errorMessage]
    ELSE Append(prev, [role |-> "model", content |-> errorMessage, files |-> << >>])

\* the updater of the catch block
ShowError(prev, errorMessage) ==
    IF prev # << >> /\ Last(prev).role = "model" /\ Last(prev).content = << >>
    THEN [prev EXCEPT ![Len(prev)].content = errorMessage]
    ELSE Append(prev, [role |-> "model", content |-> errorMessage, files |-> << >>])

(* ------------------------------ composer ------------------------------- *)

\* textarea onChange; the textarea is disabled while isLoading
TypeInput(text) ==
    /\ ~isLoading
    /\ inputValue' = text
    /\ lastOp' = "type"
    /\ alertMsg' = Null
    /\ logged' = Null
    /\ UNCHANGED << messages, isLoading, uploadedFiles, generationControllerRef,
                    gens, readers, storedKey, envApiKey, settings, render >>

\* SendIgnored without the busy test
SendIgnoredNotBusy(currentInput, files, loading) ==
    currentInput = << >> /\ Len(files) = 0

\* the first early return of handleSendMessage
SendIgnored(currentInput, files, loading) ==
    (currentInput = << >> /\ Len(files) = 0) \/ loading

\* handleSendMessage up to its first await; no call site passes a prompt
handleSendMessage(maxMessages) ==
    LET currentInput == Trim(inputValue)
        apiKey == getApiKey
        userMessage ==
            [role |-> "user", content |-> currentInput, files |-> uploadedFiles]
        updatedMessages == Append(messages, userMessage)
    IN  /\ lastOp' = "send"
        /\ logged' = Null
        /\ IF SendIgnored(currentInput, uploadedFiles, isLoading)
           THEN /\ alertMsg' = Null
                /\ UNCHANGED << messages, inputValue, isLoading, uploadedFiles,
                                generationControllerRef, gens >>
           ELSE IF ~Truthy(apiKey)
           THEN /\ alertMsg' = NoKeyAlert
                /\ UNCHANGED << messages, inputValue, isLoading, uploadedFiles,
                                generationControllerRef, gens >>
           ELSE /\ Len(updatedMessages) <= maxMessages
                /\ InFlight # DOMAIN gens
                /\ alertMsg' = Null
                /\ messages' = updatedMessages
                /\ inputValue' = << >>
                /\ uploadedFiles' = << >>
                /\ isLoading' = TRUE
                /\ gens' = [gens EXCEPT ![FreeGen] =
                               [pc         |-> "calling",
                                shouldStop |-> FALSE,
                                chunks     |-> << >>,
                                contents   |-> BuildContents(updatedMessages)]]
                /\ generationControllerRef' = << FreeGen >>
        /\ UNCHANGED << readers, storedKey, envApiKey, settings, render >>

\* the stop button: generationControllerRef.current?.stop()
Stop ==
    /\ lastOp' = "stop"
    /\ alertMsg' = Null
    /\ logged' = Null
    /\ gens' = IF generationControllerRef # Null
               THEN [gens EXCEPT ![generationControllerRef[1]].shouldStop = TRUE]
               ELSE gens
    /\ UNCHANGED << messages, inputValue, isLoading, uploadedFiles,
                    generationControllerRef, readers, storedKey, envApiKey, settings, render >>

handleNewChat ==
    /\ messages' = << >>
    /\ uploadedFiles' = << >>
    /\ inputValue' = << >>
    /\ lastOp' = "newChat"
    /\ alertMsg' = Null
    /\ logged' = Null
    /\ UNCHANGED << isLoading, generationControllerRef, gens, readers,
                    storedKey, envApiKey, settings, render >>

\* OverLimit counting the selected files only
OverLimitSelectedOnly(pending, selected) == selected > MaxFiles

\* the limit check of handleFileUpload
OverLimit(pending, selected) == pending + selected > MaxFiles

\* handleFileUpload: one reader is started per file of an accepted batch
handleFileUpload(files, maxInPlay) ==
    /\ lastOp' = "upload"
    /\ logged' = Null
    /\ IF OverLimit(Len(uploadedFiles), Len(files))
       THEN /\ alertMsg' = MaxFilesAlert
            /\ readers' = readers
       ELSE /\ FilesInPlay + Len(files) <= maxInPlay
            /\ alertMsg' = Null
            /\ readers' = readers (+) [f \in {files[i] : i \in 1..Len(files)} |->
                                         Cardinality({i \in 1..Len(files) : files[i] = f})]
    /\ UNCHANGED << messages, inputValue, isLoading, uploadedFiles,
                    generationControllerRef, gens, storedKey, envApiKey, settings, render >>

\* reader.onload of one outstanding read, in any order
ReaderLoaded(file) ==
    /\ BagIn(file, readers)
    /\ readers' = readers (-) SetToBag({file})
    /\ uploadedFiles' = Append(uploadedFiles, NewFile(file))
    /\ lastOp' = "loaded"
    /\ alertMsg' = Null
    /\ logged' = Null
    /\ UNCHANGED << messages, inputValue, isLoading, generationControllerRef,
                    gens, storedKey, envApiKey, settings, render >>

handleRemoveFile(indexToRemove) ==
    /\ indexToRemove \in 1..Len(uploadedFiles)
    /\ uploadedFiles' = RemoveAt(uploadedFiles, indexToRemove)
    /\ lastOp' = "removeFile"
    /\ alertMsg' = Null
    /\ logged' = Null
    /\ UNCHANGED << messages, inputValue, isLoading, generationControllerRef,
                    gens, readers, storedKey, envApiKey, settings, render >>

(* ------------------------ streaming controller ------------------------- *)

\* Finally leaving the stop closure in the ref
FinallyKeepingRef(g) ==
    /\ isLoading' = FALSE
    /\ generationControllerRef' = generationControllerRef
    /\ gens' = [gens EXCEPT ![g] = Done]

\* the finally block of generation g
Finally(g) ==
    /\ isLoading' = FALSE
    /\ generationControllerRef' = Null
    /\ gens' = [gens EXCEPT ![g] = Done]

\* await generateContentStream resolves: the placeholder is appended and the
\* loop awaits the first chunk
ApiResolved(g) ==
    /\ gens[g].pc = "calling"
    /\ messages' = AppendPlaceholder(messages)
    /\ gens' = [gens EXCEPT ![g].pc = "streaming", ![g].contents = << >>]
    /\ lastOp' = "resolved"
    /\ alertMsg' = Null
    /\ logged' = Null
    /\ UNCHANGED << inputValue, isLoading, uploadedFiles, generationControllerRef,
                    readers, storedKey, envApiKey, settings, render >>

\* the call or the stream rejects: catch, then finally
Failed(g, error) ==
    /\ gens[g].pc \in {"calling", "streaming"}
    /\ messages' = ShowError(messages, ErrorMessageFor(error))
    /\ Finally(g)
    /\ lastOp' = "failed"
    /\ alertMsg' = Null
    /\ logged' = << error >>
    /\ UNCHANGED << inputValue, uploadedFiles, readers, storedKey, envApiKey, settings, render >>

\* one chunk arrives: break when the stop flag is set, else append its text
ChunkArrived(g, text) ==
    /\ gens[g].pc = "streaming"
    /\ lastOp' = "chunk"
    /\ alertMsg' = Null
    /\ logged' = Null
    /\ IF gens[g].shouldStop
       THEN /\ gens' = [gens EXCEPT ![g].pc = "closing"]
            /\ messages' = messages
       ELSE /\ Len(gens[g].chunks) < Len(StreamTexts)
            /\ gens' = [gens EXCEPT ![g].chunks = Append(@, text)]
            /\ messages' = IF text # << >> THEN AppendFragment(messages, text)
                           ELSE messages
    /\ UNCHANGED << inputValue, isLoading, uploadedFiles, generationControllerRef,
                    readers, storedKey, envApiKey, settings, render >>

\* the stream completes: the loop ends, then finally
StreamEnded(g) ==
    /\ gens[g].pc = "streaming"
    /\ Finally(g)
    /\ lastOp' = "ended"
    /\ alertMsg' = Null
    /\ logged' = Null
    /\ UNCHANGED << messages, inputValue, uploadedFiles, readers, storedKey, envApiKey, settings, render >>

\* after break the loop awaits the iterator's return(), then finally
StreamClosed(g) ==
    /\ gens[g].pc = "closing"
    /\ Finally(g)
    /\ lastOp' = "closed"
    /\ alertMsg' = Null
    /\ logged' = Null
    /\ UNCHANGED << messages, inputValue, uploadedFiles, readers, storedKey, envApiKey, settings, render >>

\* the handlers and continuations, under the two bounds of a specification
Machine(maxMessages, maxInPlay) ==
    \/ \E text \in InputTexts : TypeInput(text)
    \/ handleSendMessage(maxMessages)
    \/ Stop
    \/ handleNewChat
    \/ \E files \in FileLists : handleFileUpload(files, maxInPlay)
    \/ \E file \in PickableFiles : ReaderLoaded(file)
    \/ \E i \in DOMAIN uploadedFiles : handleRemoveFile(i)
    \/ \E g \in DOMAIN gens : ApiResolved(g)
    \/ \E g \in DOMAIN gens, error \in ApiErrors : Failed(g, error)
    \/ \E g \in DOMAIN gens :
           \E text \in Fragments(Len(gens[g].chunks) + 1) : ChunkArrived(g, text)
    \/ \E g \in DOMAIN gens : StreamEnded(g)
    \/ \E g \in DOMAIN gens : StreamClosed(g)

Next == Machine(MaxMessages, MaxInPlay)

Spec == Init /\ [][Next]_vars

\* a pending call settles and an open stream delivers, ends or fails: the
\* continuations of handleSendMessage are eventually run
Progress ==
    \/ \E g \in DOMAIN gens : ApiResolved(g)
    \/ \E g \in DOMAIN gens :
           \E text \in Fragments(Len(gens[g].chunks) + 1) : ChunkArrived(g, text)
    \/ \E g \in DOMAIN gens : StreamEnded(g)
    \/ \E g \in DOMAIN gens : StreamClosed(g)

LiveSpec == Spec /\ WF_vars(Progress)

NextComposer == Machine(ComposerMessages, ComposerInPlay)

SpecComposer == Init /\ [][NextComposer]_vars

(* ---------------- the request builder on conversations ---------------- *)

\* the attachment lists a message or the composer holds
AttachmentLists ==
    LET files == {NewFile(f) : f \in PickableFiles \cup {PhotoFile, PdfFile}}
    IN  {<< >>} \cup {<< f >> : f \in files} \cup {<< f, g >> : f \in files, g \in files}

\* the messages a conversation holds: a user message is trimmed text with
\* attachments, not both empty; a model message is what a stream or the catch
\* block left
UserMessages ==
    {m \in [role : {"user"}, content : {<< >>, << "hi" >>}, files : AttachmentLists] :
        m.content # << >> \/ m.files # << >>}

ModelMessages ==
    [role : {"model"}, content : {<< >>, << "Hel", "lo" >>, GenericErrorText}, files : {<< >>}]

IsErrorText(text) == text \in {GenericErrorText, InvalidKeyText}

\* the shape of a conversation when no generation is in flight: a user
\* message is followed by a model message, and two model messages in a row
\* are partial content followed by the error appended after it
AtRest(conv) ==
    /\ \A i \in DOMAIN conv :
          conv[i].role = "user" => (i < Len(conv) /\ conv[i + 1].role = "model")
    /\ \A i \in DOMAIN conv :
          (i < Len(conv) /\ conv[i].role = "model" /\ conv[i + 1].role = "model")
          => /\ conv[i].content # << >>
             /\ ~IsErrorText(conv[i].content)
             /\ IsErrorText(conv[i + 1].content)
             /\ (i + 2 <= Len(conv) => conv[i + 2].role = "user")

Conversations ==
    {conv \in UNION {[1..n -> UserMessages \cup ModelMessages] : n \in 0..BuilderMessages} :
        AtRest(conv)}

BuilderInit ==
    /\ messages \in Conversations
    /\ inputValue \in {<< >>, << " ", "hi", " " >>}
    /\ uploadedFiles \in AttachmentLists
    /\ isLoading = FALSE
    /\ generationControllerRef = Null
    /\ gens = [g \in 1..MaxGens |-> Done]
    /\ readers = EmptyBag
    /\ storedKey = << UserKey >>
    /\ envApiKey = Null
    /\ isSettingsOpen = FALSE
    /\ activeTab = "Account"
    /\ apiKeyInput = << >>
    /\ savedApiKey = Null
    /\ apiKeyError = Null
    /\ heap = << >>
    /\ prevRefs = << >>
    /\ update = Null
    /\ returned = << >>
    /\ lastOp = "init"
    /\ alertMsg = Null
    /\ logged = Null

NextBuilder == handleSendMessage(BuilderMessages + 1)

SpecBuilder == BuilderInit /\ [][NextBuilder]_vars

(* ----------------------- the credential settings ---------------------- *)

\* handleSaveApiKey: keyToSave.length !== 39
KeyLength == 39

\* a string of n characters c
Chars(c, n) == [i \in 1..n |-> c]

\* /\s/.test(s)
HasWhiteSpace(s) == \E i \in 1..Len(s) : s[i] \in WhiteSpace

\* InvalidKeyFormat testing the length only
InvalidKeyFormatLengthOnly(keyToSave) == Len(keyToSave) # KeyLength

\* the test of handleSaveApiKey on the trimmed input
InvalidKeyFormat(keyToSave) == Len(keyToSave) # KeyLength \/ HasWhiteSpace(keyToSave)

\* two well-formed keys, character by character
FirstKey == Chars("A", KeyLength)

SecondKey == Chars("B", KeyLength)

\* process.env.API_KEY of a build that has one
DefaultKey == Chars("D", KeyLength)

\* what the user types or pastes into the key field
KeyInputs ==
    {<< >>,
     FirstKey,
     SecondKey,
     << " " >> \o FirstKey \o << "\n" >>,
     << " " >> \o Chars("A", KeyLength - 2) \o << " " >>,
     Chars("A", KeyLength - 1),
     Chars("A", KeyLength + 1),
     Chars("A", KeyLength - 20) \o << "\t" >> \o Chars("A", KeyLength - 20)}

FormatError == << "Invalid API Key format. Please enter a valid 39-character key." >>

SavedAlert == << "API Key saved successfully!" >>

RemovedAlert == << "API Key removed. The application will now use its default key." >>

settingsTabs == {"Account", "Connect", "Schedule", "API Keys", "Data"}

chat == << messages, inputValue, isLoading, uploadedFiles, generationControllerRef,
           gens, readers >>

\* the settings buttons of the sidebar: setIsSettingsOpen(true), then the
\* effect of the modal on isOpen
OpenSettings ==
    /\ ~isSettingsOpen
    /\ isSettingsOpen' = TRUE
    /\ savedApiKey' = storedKey
    /\ apiKeyInput' = << >>
    /\ apiKeyError' = Null
    /\ activeTab' = IF ~Truthy(storedKey) THEN "API Keys" ELSE "Account"
    /\ lastOp' = "openSettings"
    /\ alertMsg' = Null
    /\ logged' = Null
    /\ UNCHANGED << chat, render, storedKey, envApiKey >>

\* onClose: the backdrop or the close button
CloseSettings ==
    /\ isSettingsOpen
    /\ isSettingsOpen' = FALSE
    /\ lastOp' = "closeSettings"
    /\ alertMsg' = Null
    /\ logged' = Null
    /\ UNCHANGED << chat, render, storedKey, envApiKey, activeTab, apiKeyInput,
                    savedApiKey, apiKeyError >>

\* a tab button of the modal
SetActiveTab(name) ==
    /\ isSettingsOpen
    /\ activeTab' = name
    /\ lastOp' = "tab"
    /\ alertMsg' = Null
    /\ logged' = Null
    /\ UNCHANGED << chat, render, storedKey, envApiKey, isSettingsOpen, apiKeyInput,
                    savedApiKey, apiKeyError >>

\* onChange of the key field, shown on the API Keys tab
TypeApiKey(text) ==
    /\ isSettingsOpen
    /\ activeTab = "API Keys"
    /\ apiKeyInput' = text
    /\ apiKeyError' = Null
    /\ lastOp' = "typeKey"
    /\ alertMsg' = Null
    /\ logged' = Null
    /\ UNCHANGED << chat, render, storedKey, envApiKey, isSettingsOpen, activeTab, savedApiKey >>

\* the Save button of the API Keys tab
handleSaveApiKey ==
    LET keyToSave == Trim(apiKeyInput)
    IN  /\ isSettingsOpen
        /\ activeTab = "API Keys"
        /\ lastOp' = "saveKey"
        /\ logged' = Null
        /\ IF InvalidKeyFormat(keyToSave)
           THEN /\ apiKeyError' = << FormatError >>
                /\ alertMsg' = Null
                /\ UNCHANGED << storedKey, savedApiKey, apiKeyInput >>
           ELSE /\ storedKey' = << keyToSave >>
                /\ savedApiKey' = << keyToSave >>
                /\ apiKeyInput' = << >>
                /\ apiKeyError' = Null
                /\ alertMsg' = SavedAlert
        /\ UNCHANGED << chat, render, envApiKey, isSettingsOpen, activeTab >>

\* the Remove button, rendered while the modal holds a saved key
handleRemoveApiKey ==
    /\ isSettingsOpen
    /\ activeTab = "API Keys"
    /\ Truthy(savedApiKey)
    /\ storedKey' = Null
    /\ savedApiKey' = Null
    /\ lastOp' = "removeKey"
    /\ alertMsg' = RemovedAlert
    /\ logged' = Null
    /\ UNCHANGED << chat, render, envApiKey, isSettingsOpen, activeTab, apiKeyInput, apiKeyError >>

\* SpecSettings: the conversations a send may produce
SettingsMessages == 1

SettingsInit ==
    /\ messages = << >>
    /\ inputValue = << >>
    /\ isLoading = FALSE
    /\ uploadedFiles = << >>
    /\ generationControllerRef = Null
    /\ gens = [g \in 1..MaxGens |-> Done]
    /\ readers = EmptyBag
    /\ storedKey \in {Null, << SecondKey >>}
    /\ envApiKey \in {Null, << DefaultKey >>}
    /\ isSettingsOpen = FALSE
    /\ activeTab = "Account"
    /\ apiKeyInput = << >>
    /\ savedApiKey = Null
    /\ apiKeyError = Null
    /\ heap = << >>
    /\ prevRefs = << >>
    /\ update = Null
    /\ returned = << >>
    /\ lastOp = "init"
    /\ alertMsg = Null
    /\ logged = Null

\* the settings modal beside the composer and the generation it starts
NextSettings ==
    \/ OpenSettings
    \/ CloseSettings
    \/ \E name \in settingsTabs : SetActiveTab(name)
    \/ \E text \in KeyInputs : TypeApiKey(text)
    \/ handleSaveApiKey
    \/ handleRemoveApiKey
    \/ \E text \in InputTexts : TypeInput(text)
    \/ handleSendMessage(SettingsMessages)
    \/ handleNewChat
    \/ \E g \in DOMAIN gens : ApiResolved(g)
    \/ \E g \in DOMAIN gens : StreamEnded(g)

SpecSettings == SettingsInit /\ [][NextSettings]_vars

(* ------------------ the updaters on message objects ------------------- *)

\* the conversation an array of references stands for
Deref(h, refs) == [i \in 1..Len(refs) |-> h[refs[i]]]

\* the stream loop's updater on objects: newMsgs is a new array of the same
\* objects, and lastMsg.content += text writes to the object prev also holds
appendFragmentUpdater(h, prev, text) ==
    LET newMsgs == prev
    IN  IF newMsgs # << >> /\ h[Last(newMsgs)].role = "model"
        THEN [heap   |-> [h EXCEPT ![Last(newMsgs)].content = @ \o text],
              result |-> newMsgs]
        ELSE [heap |-> h, result |-> newMsgs]

\* the catch block's updater on objects: lastMsg.content = errorMessage
\* writes to the shared object; otherwise a new object is appended to a new
\* array
showErrorUpdater(h, prev, errorMessage) ==
    LET newMsgs == prev
    IN  IF /\ newMsgs # << >>
           /\ h[Last(newMsgs)].role = "model"
           /\ h[Last(newMsgs)].content = << >>
        THEN [heap   |-> [h EXCEPT ![Last(newMsgs)].content = errorMessage],
              result |-> newMsgs]
        ELSE [heap   |-> Append(h, [role |-> "model", content |-> errorMessage,
                                    files |-> << >>]),
              result |-> Append(newMsgs, Len(h) + 1)]

\* the conversations an updater is given
UpdaterMessages == 2

\* the invocations of one updater on one prev (twice under StrictMode)
MaxInvocations == 2

\* the conversations of a generation in flight: no user message follows
\* another
UpdaterConversations ==
    LET msgs == {[role |-> "user", content |-> << "hi" >>, files |-> << >>],
                 [role |-> "user", content |-> << >>, files |-> << NewFile(ImageFile) >>],
                 Placeholder,
                 [role |-> "model", content |-> << "Hel" >>, files |-> << >>],
                 [role |-> "model", content |-> GenericErrorText, files |-> << >>]}
    IN  {conv \in UNION {[1..n -> msgs] : n \in 0..UpdaterMessages} :
            \A i \in 1..(Len(conv) - 1) :
                ~(conv[i].role = "user" /\ conv[i + 1].role = "user")}

\* the updaters handleSendMessage queues after its await
Updates ==
    {[kind |-> "fragment", text |-> text] : text \in {StreamTexts[k] : k \in DOMAIN StreamTexts}}
    \cup {[kind |-> "error", text |-> ErrorMessageFor(error)] : error \in ApiErrors}

\* a generation in flight over a conversation of objects, with one updater
\* queued
UpdaterInit ==
    /\ messages \in UpdaterConversations
    /\ heap = messages
    /\ prevRefs = [i \in 1..Len(messages) |-> i]
    /\ update \in {<< u >> : u \in Updates}
    /\ returned = << >>
    /\ inputValue = << >>
    /\ isLoading = TRUE
    /\ uploadedFiles = << >>
    /\ generationControllerRef = << 1 >>
    /\ gens = [g \in 1..MaxGens |->
                  IF g = 1
                  THEN [pc |-> "streaming", shouldStop |-> FALSE,
                        chunks |-> << >>, contents |-> << >>]
                  ELSE Done]
    /\ readers = EmptyBag
    /\ storedKey = << UserKey >>
    /\ envApiKey = Null
    /\ isSettingsOpen = FALSE
    /\ activeTab = "Account"
    /\ apiKeyInput = << >>
    /\ savedApiKey = Null
    /\ apiKeyError = Null
    /\ lastOp = "init"
    /\ alertMsg = Null
    /\ logged = Null

\* React invokes the queued stream-loop updater on prev
InvokeAppendFragment ==
    /\ update # Null
    /\ update[1].kind = "fragment"
    /\ Len(returned) < MaxInvocations
    /\ LET out == appendFragmentUpdater(heap, prevRefs, update[1].text)
       IN  /\ heap' = out.heap
           /\ returned' = Append(returned, out.result)
    /\ lastOp' = "invoke"
    /\ UNCHANGED << chat, storedKey, envApiKey, settings, prevRefs, update,
                    alertMsg, logged >>

\* React invokes the queued catch-block updater on prev
InvokeShowError ==
    /\ update # Null
    /\ update[1].kind = "error"
    /\ Len(returned) < MaxInvocations
    /\ LET out == showErrorUpdater(heap, prevRefs, update[1].text)
       IN  /\ heap' = out.heap
           /\ returned' = Append(returned, out.result)
    /\ lastOp' = "invoke"
    /\ UNCHANGED << chat, storedKey, envApiKey, settings, prevRefs, update,
                    alertMsg, logged >>

NextUpdater == InvokeAppendFragment \/ InvokeShowError

SpecUpdater == UpdaterInit /\ [][NextUpdater]_vars

(* ------------------------------ properties ----------------------------- *)

\* what a call of handleSendMessage past its guards changes
sendState ==
    << messages, inputValue, isLoading, uploadedFiles, generationControllerRef, gens >>

\* the concatenation of the texts of a sequence, in order
RECURSIVE Concat(_)
Concat(texts) == IF texts = << >> THEN << >> ELSE Head(texts) \o Concat(Tail(texts))

\* C1: at most one generation is in flight (past the guards of
\* handleSendMessage and not yet through its finally block) in every state,
\* and a call of handleSendMessage made while the busy flag is set changes
\* nothing.
C1_OneGenerationInFlight ==
    /\ [](Cardinality(InFlight) <= 1)
    /\ [][(lastOp' = "send" /\ isLoading) => UNCHANGED sendState]_vars

\* a send was attempted while a generation was streaming
C1_Witness ==
    /\ lastOp = "send"
    /\ isLoading
    /\ \E g \in InFlight : gens[g].pc = "streaming" /\ Len(gens[g].chunks) > 0

\* C2: while a generation streams, the content of a last message of role
\* model is the concatenation, in arrival order, of the chunks processed so
\* far; a processed chunk with text is appended at the end of exactly that
\* content and changes nothing else; a chunk that arrives once the stop flag
\* is set is not appended and leaves the conversation as it is.
C2_FragmentsConcatenate ==
    /\ [](\A g \in InFlight :
            (/\ gens[g].pc \in {"streaming", "closing"}
             /\ messages # << >>
             /\ Last(messages).role = "model")
            => Last(messages).content = Concat(gens[g].chunks))
    /\ [][\A g \in DOMAIN gens :
            /\ (Len(gens'[g].chunks) = Len(gens[g].chunks) + 1
                /\ messages # << >> /\ Last(messages).role = "model")
               => /\ Len(messages') = Len(messages)
                  /\ Front(messages') = Front(messages)
                  /\ Last(messages').role = "model"
                  /\ Last(messages').content =
                         Last(messages).content \o Last(gens'[g].chunks)
            /\ (lastOp' = "chunk" /\ gens[g].pc = "streaming" /\ gens[g].shouldStop)
               => /\ messages' = messages
                  /\ gens'[g].chunks = gens[g].chunks]_vars

\* two chunks were appended in order, stop was pressed, and the next chunk
\* was dropped
C2_Witness ==
    \E g \in InFlight :
        /\ gens[g].pc = "closing"
        /\ gens[g].chunks = << << "Hel" >>, << "lo" >> >>
        /\ messages # << >>
        /\ Last(messages).content = << "Hel", "lo" >>

\* C3 (as claimed): the composer never holds more than 3 pending attachments.
C3_AtMostThreePending == Len(uploadedFiles) <= MaxFiles

\* C4: a call of handleFileUpload with a batch that would take the pending
\* count above 3 raises the warning, starts no read and leaves the pending
\* list as it is.
C4_OverLimitBatchRejected ==
    [][\A files \in FileLists :
          (/\ handleFileUpload(files, ComposerInPlay)
           /\ Len(uploadedFiles) + Len(files) > MaxFiles)
          => /\ alertMsg' = MaxFilesAlert
             /\ readers' = readers
             /\ uploadedFiles' = uploadedFiles]_vars

\* a batch was rejected with two attachments pending
C4_Witness ==
    /\ lastOp = "upload"
    /\ alertMsg = MaxFilesAlert
    /\ Len(uploadedFiles) = 2

\* C5: with nothing stored and no build-time default, a call of
\* handleSendMessage changes neither the conversation, the composer, the busy
\* flag, the ref nor the generations (no request is issued), and when the
\* call gets past the empty-composer and busy test it raises the
\* configuration alert.
C5_NoCredentialNoMutation ==
    [][(/\ handleSendMessage(MaxMessages)
        /\ storedKey = Null
        /\ envApiKey = Null)
       => /\ UNCHANGED sendState
          /\ InFlight' = {}
          /\ (~isLoading /\ (Trim(inputValue) # << >> \/ uploadedFiles # << >>))
             => alertMsg' = NoKeyAlert]_vars

\* the alert was raised for a composer holding text and an attachment
C5_Witness ==
    /\ lastOp = "send"
    /\ alertMsg = NoKeyAlert
    /\ inputValue = << " ", "hi", " " >>
    /\ Len(uploadedFiles) = 1
    /\ messages = << >>
    /\ ~isLoading

\* C6: the step that ends a generation clears the busy flag and the ref;
\* every generation in flight is eventually through its finally block with
\* the busy flag clear and the ref null, and so is one whose stop flag was
\* set.
C6_AlwaysReleased ==
    /\ [][\A g \in DOMAIN gens :
            (gens[g].pc # "done" /\ gens'[g].pc = "done")
            => (~isLoading' /\ generationControllerRef' = Null)]_vars
    /\ \A g \in 1..MaxGens :
          (gens[g].pc # "done")
          ~> (gens[g].pc = "done" /\ ~isLoading /\ generationControllerRef = Null)
    /\ \A g \in 1..MaxGens :
          (gens[g].pc # "done" /\ gens[g].shouldStop)
          ~> (InFlight = {} /\ ~isLoading /\ generationControllerRef = Null)

\* a cancelled generation has gone through its finally block
C6_Witness ==
    /\ lastOp = "closed"
    /\ InFlight = {}
    /\ ~isLoading
    /\ generationControllerRef = Null

\* the text the conversation shows for an error
C7_TextFor(error) ==
    IF \E i \in 1..Len(error.message) : error.message[i] = "API key not valid"
    THEN InvalidKeyText
    ELSE GenericErrorText

\* C7: when the call or the stream fails and the last message is a model
\* message with empty content, that content becomes the error text and no
\* message is added; otherwise a model message with the error text is
\* appended and the messages there are stay as they are.  The text is the
\* invalid-key text exactly when the error's message contains
\* 'API key not valid'.
C7_ErrorShown ==
    [][\A g \in DOMAIN gens, error \in ApiErrors :
          Failed(g, error)
          => IF /\ messages # << >>
                /\ Last(messages).role = "model"
                /\ Last(messages).content = << >>
             THEN /\ Len(messages') = Len(messages)
                  /\ Front(messages') = Front(messages)
                  /\ Last(messages') =
                         [Last(messages) EXCEPT !.content = C7_TextFor(error)]
             ELSE messages' =
                      messages \o << [role    |-> "model",
                                      content |-> C7_TextFor(error),
                                      files   |-> << >>] >>]_vars

\* an invalid-key failure after partial content: the partial content is
\* kept and the error is a message of its own
C7_Witness ==
    /\ lastOp = "failed"
    /\ logged # Null
    /\ Len(messages) = 3
    /\ messages[2].role = "model"
    /\ messages[2].content = << "Hel" >>
    /\ messages[3] = [role |-> "model", content |-> InvalidKeyText, files |-> << >>]

\* the messages of a conversation that have parts, and where the i-th message
\* stands among them
Kept(msgs) == {i \in DOMAIN msgs : PartsOf(msgs[i]) # << >>}

Pos(msgs, i) == Cardinality({j \in Kept(msgs) : j <= i})

\* the request of the call that is pending, with the conversation it was built from
Pending == {g \in DOMAIN gens : gens[g].pc = "calling"}

\* C8: the request holds one entry for each message whose parts list is not
\* empty, in conversation order, with the message's role and parts; a message
\* has no parts exactly when it has no text and no attachment, and it has no
\* entry.
C8_RequestKeepsNonEmpty ==
    \A g \in Pending :
        LET contents == gens[g].contents
        IN  /\ Len(contents) = Cardinality(Kept(messages))
            /\ \A i \in Kept(messages) :
                  /\ contents[Pos(messages, i)].role = messages[i].role
                  /\ contents[Pos(messages, i)].parts = PartsOf(messages[i])
            /\ \A i \in DOMAIN messages :
                  i \notin Kept(messages)
                  <=> (messages[i].content = << >> /\ messages[i].files = << >>)

\* a request built from a conversation whose second message is an empty
\* placeholder: the placeholder has no entry
C8_Witness ==
    \E g \in Pending :
        /\ Len(messages) = 3
        /\ messages[2] = Placeholder
        /\ Len(gens[g].contents) = 2
        /\ gens[g].contents[1].role = "user"
        /\ gens[g].contents[2].role = "user"

\* the names of a list of files, separated by ', '
RECURSIVE C9_Names(_)
C9_Names(files) ==
    IF Len(files) = 1 THEN files[1].name
    ELSE files[1].name \o << ", " >> \o C9_Names(Tail(files))

\* C9: a message whose attachments are all non-image has one part in the
\* request, a text part: the message text followed by the note with the
\* attachments' names; no part carries an attachment's content.
C9_NonImageOnlyNote ==
    \A g \in Pending : \A i \in DOMAIN messages :
        (/\ messages[i].files # << >>
         /\ \A j \in DOMAIN messages[i].files : ~messages[i].files[j].isImage)
        => /\ i \in Kept(messages)
           /\ gens[g].contents[Pos(messages, i)].parts =
                  << [text |-> messages[i].content \o NotePrefix
                               \o C9_Names(messages[i].files) \o NoteSuffix] >>
           /\ \A j \in DOMAIN messages[i].files :
                  \A k \in DOMAIN messages[i].files[j].base64Data :
                      \A p \in DOMAIN gens[g].contents[Pos(messages, i)].parts[1].text :
                          gens[g].contents[Pos(messages, i)].parts[1].text[p]
                              # messages[i].files[j].base64Data[k]

\* the request of a message with text and two non-image attachments
C9_Witness ==
    \E g \in Pending :
        /\ Len(messages) = 1
        /\ messages[1].content = << "hi" >>
        /\ messages[1].files = << NewFile(TextFile), NewFile(PdfFile) >>
        /\ gens[g].contents[1].parts =
               << [text |-> << "hi",
                               "\n\n(For context, the following files were also attached: ",
                               "notes.txt", ", ", "paper.pdf",
                               ". You cannot read their contents.)" >>] >>

\* C10: a message with attachments, all of them images, and empty text has
\* an entry in the request: one inline part per attachment, in attachment
\* order, then one text part with the default instruction.
C10_ImagesOnlyDefaultText ==
    \A g \in Pending : \A i \in DOMAIN messages :
        (/\ messages[i].files # << >>
         /\ \A j \in DOMAIN messages[i].files : messages[i].files[j].isImage
         /\ messages[i].content = << >>)
        => /\ i \in Kept(messages)
           /\ gens[g].contents[Pos(messages, i)].parts =
                  [j \in DOMAIN messages[i].files |->
                      [inlineData |-> [mimeType |-> messages[i].files[j].type,
                                       data     |-> messages[i].files[j].base64Data]]]
                  \o << [text |-> DefaultInstruction] >>

\* the request of a message with two different images and no text
C10_Witness ==
    \E g \in Pending :
        /\ Len(messages) = 1
        /\ messages[1].content = << >>
        /\ messages[1].files = << NewFile(PhotoFile), NewFile(ImageFile) >>
        /\ Len(gens[g].contents[1].parts) = 3
        /\ gens[g].contents[1].parts[1].inlineData.data = << "RE9H" >>
        /\ gens[g].contents[1].parts[2].inlineData.data = << "Q0FU" >>
        /\ gens[g].contents[1].parts[3] = [text |-> DefaultInstruction]

(* ------------------------- credential claims --------------------------- *)

\* C11 (as claimed): a save whose entered value has a length other than 39 or
\* holds a white-space character leaves the stored key as it is and sets the
\* field error.
C11_EnteredValueRejected ==
    [][(/\ handleSaveApiKey
        /\ (Len(apiKeyInput) # KeyLength
            \/ \E i \in 1..Len(apiKeyInput) : apiKeyInput[i] \in WhiteSpace))
       => /\ storedKey' = storedKey
          /\ apiKeyError' = << FormatError >>]_vars

\* the entered value without its leading and trailing white space
C11_Trimmed(s) ==
    LET inside == {i \in 1..Len(s) : s[i] \notin WhiteSpace}
    IN  IF inside = {} THEN << >>
        ELSE SubSeq(s, CHOOSE i \in inside : \A j \in inside : i <= j,
                       CHOOSE i \in inside : \A j \in inside : i >= j)

\* C11: a save whose entered value, without its leading and trailing white
\* space, has a length other than 39 or holds a white-space character leaves
\* the stored key as it is and sets the field error; a value of 39
\* characters, none of them white space, is stored without its surrounding
\* white space, and the field error is cleared.
C11_TrimmedValueRejected ==
    [][handleSaveApiKey
       => LET key == C11_Trimmed(apiKeyInput)
          IN  IF Len(key) # KeyLength \/ \E i \in 1..Len(key) : key[i] \in WhiteSpace
              THEN /\ storedKey' = storedKey
                   /\ apiKeyError' = << FormatError >>
              ELSE /\ storedKey' = << key >>
                   /\ apiKeyError' = Null]_vars

\* a key of 39 characters with a tab inside was rejected over a stored key
C11_Witness ==
    /\ lastOp = "saveKey"
    /\ apiKeyError = << FormatError >>
    /\ Len(apiKeyInput) = KeyLength
    /\ \E i \in 1..Len(apiKeyInput) : apiKeyInput[i] = "\t"
    /\ storedKey = << SecondKey >>

\* the key the next read returns when no user key is stored
C12_Default == IF envApiKey # Null /\ envApiKey[1] # << >> THEN envApiKey ELSE Null

\* C12: a stored user key is what getApiKey returns, before the default; an
\* accepted save makes getApiKey return the saved key of 39 characters, a
\* rejected save leaves what it returns, a remove makes it return the
\* build-time default or null, and no other step changes it; a send right
\* after reads that value: it raises the configuration alert exactly when the
\* value is null and the send is not ignored.
C12_CredentialRoundTrip ==
    /\ [](storedKey # Null => getApiKey = storedKey)
    /\ [](storedKey = Null => getApiKey = C12_Default)
    /\ [][/\ (lastOp' = "saveKey" /\ alertMsg' = SavedAlert)
             => /\ getApiKey' = << C11_Trimmed(apiKeyInput) >>
                /\ Len(getApiKey'[1]) = KeyLength
          /\ (lastOp' = "saveKey" /\ alertMsg' # SavedAlert) => getApiKey' = getApiKey
          /\ lastOp' = "removeKey" => getApiKey' = C12_Default
          /\ lastOp' \notin {"saveKey", "removeKey"} => getApiKey' = getApiKey
          /\ (/\ handleSendMessage(SettingsMessages)
              /\ ~isLoading
              /\ Trim(inputValue) # << >>)
             => IF storedKey = Null /\ C12_Default = Null
                THEN alertMsg' = NoKeyAlert /\ UNCHANGED sendState
                ELSE alertMsg' = Null /\ isLoading']_vars

\* a key pasted with white space around it was saved beside a build-time
\* default, and the send that followed was accepted with the saved key stored
C12_Witness ==
    /\ lastOp = "send"
    /\ isLoading
    /\ storedKey = << FirstKey >>
    /\ getApiKey = << FirstKey >>
    /\ envApiKey = << DefaultKey >>
    /\ \E g \in DOMAIN gens : gens[g].pc = "calling"

(* ----------------------- conversation claims --------------------------- *)

\* C13: a step that changes a message the conversation already holds changes
\* the last one only, a model message that stays a model message with its
\* attachments, and takes place while the busy flag is set and a generation
\* is in flight; user messages and the messages before the last are never
\* changed.
C13_OnlyLastWhileBusy ==
    [][\A i \in DOMAIN messages :
          (i \in DOMAIN messages' /\ messages'[i] # messages[i])
          => /\ i = Len(messages)
             /\ messages[i].role = "model"
             /\ messages'[i].role = "model"
             /\ messages'[i].files = messages[i].files
             /\ isLoading
             /\ InFlight # {}]_vars

\* the first fragment of a second answer was appended to the last message,
\* with the first answer before it as it was streamed
C13_Witness ==
    /\ lastOp = "chunk"
    /\ isLoading
    /\ Len(messages) = 4
    /\ messages[2] = [role |-> "model", content |-> << "Hel", "lo" >>, files |-> << >>]
    /\ messages[3].role = "user"
    /\ messages[4] = [role |-> "model", content |-> << "Hel" >>, files |-> << >>]

\* C14: an accepted send appends the user message (the trimmed text with the
\* attachments pending at that moment), clears the composer text and the
\* pending attachments and sets the busy flag, with no chunk consumed; the
\* step that takes the generation out of its pending call appends the empty
\* model placeholder, or is its failure; chunks are consumed only after
\* that, and a chunk's text is applied only to a conversation whose last
\* message is the model message holding the text streamed so far.
C14_SendOrder ==
    /\ [](\A g \in DOMAIN gens : gens[g].pc = "calling" => gens[g].chunks = << >>)
    /\ [][\A g \in DOMAIN gens :
            /\ (gens[g].pc = "done" /\ gens'[g].pc # "done")
               => /\ gens'[g].pc = "calling"
                  /\ messages' = messages \o << [role    |-> "user",
                                                 content |-> Trim(inputValue),
                                                 files   |-> uploadedFiles] >>
                  /\ inputValue' = << >>
                  /\ uploadedFiles' = << >>
                  /\ isLoading'
            /\ (gens[g].pc = "calling" /\ gens'[g].pc # "calling")
               => \/ /\ gens'[g].pc = "streaming"
                     /\ gens'[g].chunks = << >>
                     /\ messages' = messages \o << [role    |-> "model",
                                                    content |-> << >>,
                                                    files   |-> << >>] >>
                  \/ /\ gens'[g].pc = "done"
                     /\ lastOp' = "failed"
            /\ gens'[g].chunks # gens[g].chunks
               => gens[g].pc = "streaming" \/ gens'[g].pc = "done"
            /\ (lastOp' = "chunk" /\ gens'[g] # gens[g] /\ messages' # messages)
               => /\ gens[g].pc = "streaming"
                  /\ messages # << >>
                  /\ Last(messages).role = "model"
                  /\ Last(messages).content = Concat(gens[g].chunks)]_vars

\* a message with text and an attachment was sent, the placeholder was
\* appended and the first fragment was applied to it
C14_Witness ==
    /\ lastOp = "chunk"
    /\ Len(messages) = 2
    /\ messages[1].content = << "hi" >>
    /\ Len(messages[1].files) = 1
    /\ messages[2] = [role |-> "model", content |-> << "Hel" >>, files |-> << >>]
    /\ inputValue = << >>
    /\ uploadedFiles = << >>
    /\ isLoading
    /\ \E g \in InFlight : gens[g].chunks = << << "Hel" >> >>

\* C15 (as claimed): once the stop flag of a generation is set, no step of
\* that generation changes the conversation, whichever phase it is in.
C15_StopCeasesMutation ==
    [][\A g \in DOMAIN gens :
          (gens[g].pc # "done" /\ gens[g].shouldStop /\ gens'[g] # gens[g])
          => messages' = messages]_vars

\* C16 (as claimed): a conversation that is empty stays empty until a send
\* is accepted: the step that makes it non-empty is a send, and it leaves
\* the user message alone in it.
C16_EmptyUntilNextSend ==
    [][(messages = << >> /\ messages' # << >>)
       => /\ lastOp' = "send"
          /\ Len(messages') = 1
          /\ messages'[1].role = "user"]_vars

\* C17 (as claimed): a read that completes right after New Chat has cleared
\* the composer, and so was started by a selection made before the clear,
\* leaves the pending list empty.
C17_ClearedStaysEmpty ==
    [][\A file \in PickableFiles :
          (lastOp = "newChat" /\ uploadedFiles = << >> /\ ReaderLoaded(file))
          => uploadedFiles' = << >>]_vars

\* the number of image attachments of a message
C18_Images(msg) == Cardinality({j \in DOMAIN msg.files : msg.files[j].isImage})

\* C18: the request of an accepted send is not empty and its last entry is
\* built from the user message just appended: its role is user, it has one
\* inline part per image attachment of that message followed by one text
\* part, and the text part begins with the message's text when there is one.
C18_LastIsUserMessage ==
    \A g \in Pending :
        LET contents == gens[g].contents
            sent == Last(messages)
            parts == Last(contents).parts
        IN  /\ sent.role = "user"
            /\ sent.content # << >> \/ sent.files # << >>
            /\ contents # << >>
            /\ Last(contents).role = "user"
            /\ Len(parts) = C18_Images(sent) + 1
            /\ \A k \in 1..C18_Images(sent) : "inlineData" \in DOMAIN parts[k]
            /\ DOMAIN Last(parts) = {"text"}
            /\ Last(parts).text # << >>
            /\ SubSeq(Last(parts).text, 1, Len(sent.content)) = sent.content

\* a send of a non-image attachment alone, after a conversation that left an
\* empty placeholder: the request is this message's note alone
C18_Witness ==
    \E g \in Pending :
        /\ Len(messages) = 3
        /\ messages[2] = Placeholder
        /\ messages[3].content = << >>
        /\ messages[3].files = << NewFile(PdfFile) >>
        /\ Len(gens[g].contents) = 2
        /\ Len(gens[g].contents[2].parts) = 1
        /\ gens[g].contents[2].parts[1].text[1] = NotePrefix[1]

\* C19 (as claimed): an invocation of a setMessages updater leaves the
\* conversation it was given, and the message objects of it, as they were;
\* a second invocation on the same prev returns the same conversation as the
\* first (a fragment is in the last message's content once).
C19_UpdaterPure ==
    /\ [](Deref(heap, prevRefs) = messages)
    /\ [][(Len(returned) = 1 /\ Len(returned') = 2)
          => Deref(heap', returned'[2]) = Deref(heap, returned[1])]_vars

====
